---- MODULE Spec2Model ----
(***************************************************************************)
(* A model of the social-simulation building blocks of                     *)
(* rusted_social_simulation: the Condition, UtilityRule and Effect trees,  *)
(* the practice templates and the practices.                               *)
(*                                                                         *)
(* The library has no global state.  A caller holds a context (u32 in the  *)
(* library's own tests) and immutable objects, calls one operation at a    *)
(* time and looks at what it returned.  A state of the model is therefore  *)
(* the context, the call in progress (the operation, the object it was     *)
(* called on and its arguments), and the outcome of that call: a returned  *)
(* value or a panic.  A panic ends the run: no action is enabled after it. *)
(***************************************************************************)
EXTENDS Integers, Sequences, FiniteSets, TLC

VARIABLES
    context,    \* the caller's context (T = u32)
    call,       \* the call the caller made last, NoCall between two calls
    ret,        \* the outcome of that call
    trace       \* the calls the operation made on its children, in order

vars == <<context, call, ret, trace>>

\* ------------------------------------------------------------------ bounds

\* Longest list of children of a combinator (And, Or, Total, Max, Vector).
MaxLen == 3

\* The calls and outcomes of the caller.
NoCall == [op |-> "none"]

NoRet == [kind |-> "none"]

Ok(v) == [kind |-> "ok", value |-> v]

Panic(m) == [kind |-> "panic", message |-> m]

\* The context of the library's doc tests.
InitContext == 42

\* All sequences over S of length at most n.
SeqUpTo(S, n) == UNION {[1..k -> S] : k \in 0..n}

\* ------------------------------------------------------------- conditions

MockCondition(v) == [type |-> "MockCondition", value |-> v]

NotCondition(c) == [type |-> "NotCondition", condition |-> c]

AndCondition(cs) == [type |-> "AndCondition", conditions |-> cs]

OrCondition(cs) == [type |-> "OrCondition", conditions |-> cs]

RECURSIVE Evaluate(_)
RECURSIVE AndLoop(_, _, _)
RECURSIVE OrLoop(_, _, _)
RECURSIVE AndLoopNoShortCircuit(_, _, _)
RECURSIVE OrLoopStopsAtFalse(_, _, _)

\* A plausible slip: the loop remembers a false child and goes on.
AndLoopNoShortCircuit(conditions, i, visited) ==
    IF i > Len(conditions)
    THEN [value |-> \A j \in 1..Len(conditions) : Evaluate(conditions[j]),
          visited |-> visited]
    ELSE AndLoopNoShortCircuit(conditions, i + 1, Append(visited, i))

\* AndCondition::evaluate: the for loop from child i on; visited lists the
\* children evaluated so far.
AndLoop(conditions, i, visited) ==
    IF i > Len(conditions)
    THEN [value |-> TRUE, visited |-> visited]
    ELSE IF ~Evaluate(conditions[i])
         THEN [value |-> FALSE, visited |-> Append(visited, i)]
         ELSE AndLoop(conditions, i + 1, Append(visited, i))

\* A plausible slip: the test of the And loop copied into the Or loop.
OrLoopStopsAtFalse(conditions, i, visited) ==
    IF i > Len(conditions)
    THEN [value |-> FALSE, visited |-> visited]
    ELSE IF ~Evaluate(conditions[i])
         THEN [value |-> TRUE, visited |-> Append(visited, i)]
         ELSE OrLoopStopsAtFalse(conditions, i + 1, Append(visited, i))

\* OrCondition::evaluate: the for loop from child i on.
OrLoop(conditions, i, visited) ==
    IF i > Len(conditions)
    THEN [value |-> FALSE, visited |-> visited]
    ELSE IF Evaluate(conditions[i])
         THEN [value |-> TRUE, visited |-> Append(visited, i)]
         ELSE OrLoop(conditions, i + 1, Append(visited, i))

\* Condition::evaluate, dispatched on the implementing type.  No condition
\* of the library reads the context.
Evaluate(c) ==
    CASE c.type = "MockCondition" -> c.value
      [] c.type = "NotCondition" -> ~Evaluate(c.condition)
      [] c.type = "AndCondition" -> AndLoop(c.conditions, 1, <<>>).value
      [] c.type = "OrCondition" -> OrLoop(c.conditions, 1, <<>>).value

\* The conditions the calls of the model are made on.
MockConditions == {MockCondition(v) : v \in BOOLEAN}

ChildConditions ==
    MockConditions
        \cup {NotCondition(c) : c \in MockConditions}
        \cup {AndCondition(<<>>), OrCondition(<<>>)}

ConditionLists == SeqUpTo(ChildConditions, MaxLen)

\* ---------------------------------------------------------- utility rules

\* type Utility = i32.
MaxUtilityValue == 2147483647

MinUtilityValue == -MaxUtilityValue - 1

\* Whether a + b leaves the range of i32 (decided without leaving it).
AddOverflows(a, b) ==
    \/ b > 0 /\ a > MaxUtilityValue - b
    \/ b < 0 /\ a < MinUtilityValue - b

\* a + b in two's complement, 32 bits wide: what the addition of two i32
\* yields when the build does not check for overflow.
WrappingAdd(a, b) ==
    IF ~AddOverflows(a, b) THEN a + b
    ELSE IF b > 0
         THEN (a + MinUtilityValue) + (b + MinUtilityValue)
         ELSE (a + MaxUtilityValue + 1) + (b + MaxUtilityValue + 1)

FixedUtility(u) == [type |-> "FixedUtility", utility |-> u]

ConditionalUtility(c, u) ==
    [type |-> "ConditionalUtility", condition |-> c, utility |-> u]

TotalUtility(rs) == [type |-> "TotalUtility", rules |-> rs]

MaxUtility(rs) == [type |-> "MaxUtility", rules |-> rs]

\* Option<Utility>, the accumulator of Iterator::max.
None == [some |-> FALSE]

Some(v) == [some |-> TRUE, value |-> v]

RECURSIVE CalculateUtility(_, _)
RECURSIVE TotalLoop(_, _, _, _)
RECURSIVE MaxLoop(_, _, _, _)
RECURSIVE TotalLoopSkipsNegative(_, _, _, _)
RECURSIVE MaxLoopFromZero(_, _, _, _)

\* A plausible slip: a sum that leaves out the negative utilities.
TotalLoopSkipsNegative(rules, i, acc, overflow_checks) ==
    IF i > Len(rules) THEN Ok(acc)
    ELSE LET r == CalculateUtility(rules[i], overflow_checks) IN
         IF r.kind = "panic" THEN r
         ELSE IF r.value < 0
              THEN TotalLoopSkipsNegative(rules, i + 1, acc, overflow_checks)
              ELSE IF AddOverflows(acc, r.value) /\ overflow_checks
                   THEN Panic("attempt to add with overflow")
                   ELSE TotalLoopSkipsNegative(rules, i + 1,
                            WrappingAdd(acc, r.value), overflow_checks)

\* TotalUtility::calculate_utility: rules.iter().map(..).sum(), the fold of
\* + over the children's utilities from 0, each child evaluated when the
\* fold reaches it.  The + of i32 panics on overflow in a build with
\* overflow checks (the debug profile) and wraps in one without (the
\* release profile).
TotalLoop(rules, i, acc, overflow_checks) ==
    IF i > Len(rules) THEN Ok(acc)
    ELSE LET r == CalculateUtility(rules[i], overflow_checks) IN
         IF r.kind = "panic" THEN r
         ELSE IF AddOverflows(acc, r.value) /\ overflow_checks
              THEN Panic("attempt to add with overflow")
              ELSE TotalLoop(rules, i + 1, WrappingAdd(acc, r.value),
                             overflow_checks)

\* A plausible slip: a maximum that starts from 0 instead of from nothing.
MaxLoopFromZero(rules, i, best, overflow_checks) ==
    IF i > Len(rules) THEN Ok(IF best.some THEN best.value ELSE 0)
    ELSE LET r == CalculateUtility(rules[i], overflow_checks) IN
         IF r.kind = "panic" THEN r
         ELSE IF r.value >= (IF best.some THEN best.value ELSE 0)
              THEN MaxLoopFromZero(rules, i + 1, Some(r.value),
                                   overflow_checks)
              ELSE MaxLoopFromZero(rules, i + 1,
                       Some(IF best.some THEN best.value ELSE 0),
                       overflow_checks)

\* MaxUtility::calculate_utility: rules.iter().map(..).max().unwrap_or(0).
\* Iterator::max keeps the later of two equal elements.
MaxLoop(rules, i, best, overflow_checks) ==
    IF i > Len(rules) THEN Ok(IF best.some THEN best.value ELSE 0)
    ELSE LET r == CalculateUtility(rules[i], overflow_checks) IN
         IF r.kind = "panic" THEN r
         ELSE IF ~best.some \/ r.value >= best.value
              THEN MaxLoop(rules, i + 1, Some(r.value), overflow_checks)
              ELSE MaxLoop(rules, i + 1, best, overflow_checks)

\* A plausible slip: the two branches the wrong way round.
ConditionalValueInverted(rule) ==
    IF Evaluate(rule.condition) THEN 0 ELSE rule.utility

\* ConditionalUtility::calculate_utility: the utility of the rule if its
\* condition evaluates to true, else 0.
ConditionalValue(rule) ==
    IF Evaluate(rule.condition) THEN rule.utility ELSE 0

\* UtilityRule::calculate_utility, dispatched on the implementing type: the
\* value returned, or the panic of an addition that overflowed.
CalculateUtility(rule, overflow_checks) ==
    CASE rule.type = "FixedUtility" -> Ok(rule.utility)
      [] rule.type = "ConditionalUtility" -> Ok(ConditionalValue(rule))
      [] rule.type = "TotalUtility" ->
            TotalLoop(rule.rules, 1, 0, overflow_checks)
      [] rule.type = "MaxUtility" ->
            MaxLoop(rule.rules, 1, None, overflow_checks)

\* The utilities the rules of the model are built from: the two ends of
\* i32, and the values of the doc tests.
UtilityValues == {MinUtilityValue, -5, -1, 5, 9, MaxUtilityValue}

FixedUtilities == {FixedUtility(u) : u \in UtilityValues}

ConditionalUtilities ==
    {ConditionalUtility(MockCondition(TRUE), 78),
     ConditionalUtility(MockCondition(FALSE), 35),
     ConditionalUtility(MockCondition(TRUE), -5)}

ChildRules ==
    FixedUtilities
        \cup ConditionalUtilities
        \cup {TotalUtility(<<FixedUtility(MaxUtilityValue), FixedUtility(5)>>)}

RuleLists == SeqUpTo(ChildRules, MaxLen)

\* The conditional rules that are called on their own: every condition of
\* the model with every utility, the values of the doc test among them.
ConditionalRules ==
    {ConditionalUtility(c, u) :
        c \in ChildConditions, u \in UtilityValues \cup {0, 35, 78}}

\* ---------------------------------------------------------------- effects

\* The largest context the model lets an effect reach.
MaxContext == 120

DoNothing == [type |-> "DoNothing"]

MockEffect(v) == [type |-> "MockEffect", value |-> v]

EffectVector(es) == [type |-> "EffectVector", effects |-> es]

RECURSIVE Apply(_, _)
RECURSIVE VectorLoop(_, _, _, _)
RECURSIVE VectorLoopReversed(_, _, _, _)

\* A plausible slip: the sub-effects applied last to first.
VectorLoopReversed(effects, i, ctx, steps) ==
    IF i > Len(effects) THEN [context |-> ctx, steps |-> steps]
    ELSE LET j == Len(effects) + 1 - i
             after == Apply(effects[j], ctx)
         IN VectorLoopReversed(effects, i + 1, after,
                Append(steps, [index |-> j, before |-> ctx, after |-> after]))

\* EffectVector::apply: the for loop from sub-effect i on, on the context
\* the sub-effects before it left; steps lists the applications made so far.
VectorLoop(effects, i, ctx, steps) ==
    IF i > Len(effects) THEN [context |-> ctx, steps |-> steps]
    ELSE LET after == Apply(effects[i], ctx) IN
         VectorLoop(effects, i + 1, after,
             Append(steps, [index |-> i, before |-> ctx, after |-> after]))

\* Effect::apply, dispatched on the implementing type: the context it leaves.
\* The += of MockEffect stays far below the end of u32 in this model.
Apply(effect, ctx) ==
    CASE effect.type = "DoNothing" -> ctx
      [] effect.type = "MockEffect" -> ctx + effect.value
      [] effect.type = "EffectVector" ->
            VectorLoop(effect.effects, 1, ctx, <<>>).context

\* The effects the calls of the model are made on: the values of the doc
\* test of EffectVector.
MockEffects == {MockEffect(2), MockEffect(34)}

ChildEffects ==
    {DoNothing} \cup MockEffects
        \cup {EffectVector(<<MockEffect(2), MockEffect(34)>>)}

EffectLists == SeqUpTo(ChildEffects, MaxLen)

\* The value of a call that returns ().
Unit == <<>>

\* ---------------------------------------------------------------- actions

MockAction(name) == [type |-> "MockAction", name |-> name]

SimpleAction(name, condition, utility_rule, effect) ==
    [type |-> "SimpleAction", name |-> name, condition |-> condition,
     utility_rule |-> utility_rule, effect |-> effect]

\* Action::get_name.
ActionGetName(action) == action.name

\* Action::is_available: SimpleAction evaluates its condition, MockAction is
\* always available.
ActionIsAvailable(action) ==
    CASE action.type = "SimpleAction" -> Evaluate(action.condition)
      [] action.type = "MockAction" -> TRUE

\* Action::get_utility: SimpleAction asks its utility rule, MockAction
\* returns 0.
ActionGetUtility(action, overflow_checks) ==
    CASE action.type = "SimpleAction" ->
            CalculateUtility(action.utility_rule, overflow_checks)
      [] action.type = "MockAction" -> Ok(0)

\* A plausible slip: an action that is not available is not executed.
ActionExecuteIfAvailable(action, ctx) ==
    CASE action.type = "SimpleAction" ->
            IF Evaluate(action.condition) THEN Apply(action.effect, ctx)
            ELSE ctx
      [] action.type = "MockAction" -> ctx

\* Action::execute: SimpleAction applies its effect, MockAction does
\* nothing.  The context the call leaves.
ActionExecute(action, ctx) ==
    CASE action.type = "SimpleAction" -> Apply(action.effect, ctx)
      [] action.type = "MockAction" -> ctx

\* The actions the calls of the model are made on: available or not, with a
\* fixed, a conditional or an overflowing utility, with no effect, one
\* effect or a vector of effects.
ActionEffects ==
    {DoNothing, MockEffect(34), EffectVector(<<MockEffect(34), DoNothing>>)}

ActionRules ==
    {FixedUtility(13), ConditionalUtility(MockCondition(TRUE), 78),
     TotalUtility(<<FixedUtility(MaxUtilityValue), FixedUtility(5)>>)}

Actions ==
    {SimpleAction("a", c, u, e) :
        c \in MockConditions, u \in ActionRules, e \in ActionEffects}
        \cup {MockAction("action0"), MockAction("action1")}

\* -------------------------------------------------- roles and practices

Character(id) == [type |-> "Character", id |-> id]

SimplePracticeTemplate(id, name, role_names, actions) ==
    [id |-> id, name |-> name, role_names |-> role_names, actions |-> actions]

\* A HashMap iterates over its entries in an order its hasher decides: any
\* order of the keys, the same one for as long as the map is not changed.
\* iteration is that order for role_to_id_map.
SimplePractice(id, role_to_id_map, iteration, template) ==
    [id |-> id, role_to_id_map |-> role_to_id_map, iteration |-> iteration,
     template |-> template]

\* A plausible slip: the actions collected back to front.
TemplateGetActionsReversed(template, role) ==
    IF role \in DOMAIN template.actions
    THEN LET actions == template.actions[role] IN
         [i \in 1..Len(actions) |-> actions[Len(actions) + 1 - i]]
    ELSE <<>>

\* SimplePracticeTemplate::get_actions: a reference to each action of the
\* role, collected in the order of the role's list; an empty Vec for a role
\* that is no key of the map.
TemplateGetActions(template, role) ==
    IF role \in DOMAIN template.actions
    THEN LET actions == template.actions[role] IN
         [i \in 1..Len(actions) |-> actions[i]]
    ELSE <<>>

\* A plausible slip: a placeholder instead of the panic.
TemplateGetRoleNameOrEmpty(template, role) ==
    IF role \in DOMAIN template.role_names
    THEN Ok(template.role_names[role])
    ELSE Ok("")

\* SimplePracticeTemplate::get_role_name: the name of the role, or the panic
\* of unwrap_or_else.
TemplateGetRoleName(template, role) ==
    IF role \in DOMAIN template.role_names
    THEN Ok(template.role_names[role])
    ELSE Panic([text |-> "PracticeTemplate doesn't have the role",
                template |-> template.name, role |-> role])

\* A plausible slip: the roles read from the actions map.
TemplateGetRolesOfActions(template, iteration) ==
    LET keys == DOMAIN template.actions
        order == CHOOSE o \in [1..Cardinality(keys) -> keys] :
                    \A i, j \in 1..Cardinality(keys) : o[i] = o[j] => i = j
    IN [i \in 1..Cardinality(keys) |-> order[i]]

\* SimplePracticeTemplate::get_roles: the key of every entry of role_names,
\* collected in the order the map iterates in (iteration: the keys in an
\* order the hasher decides).
TemplateGetRoles(template, iteration) ==
    [i \in 1..Len(iteration) |-> iteration[i]]

\* A plausible slip: a lookup that is made to return the same role whatever
\* the order of the map, the matching role with the smallest id.
GetRoleLoopSmallestId(practice, entity, i) ==
    LET matches == {role \in DOMAIN practice.role_to_id_map :
                        practice.role_to_id_map[role] = entity}
    IN IF matches = {}
       THEN Panic([text |-> "Practice doesn't have the role for entity",
                   practice |-> practice.id,
                   template |-> practice.template.name, entity |-> entity])
       ELSE Ok(CHOOSE role \in matches :
                    \A other \in matches : role.id <= other.id)

RECURSIVE GetRoleLoop(_, _, _)
RECURSIVE GetRoleLoopOrDefault(_, _, _)

\* A plausible slip: a default role instead of the panic.
GetRoleLoopOrDefault(practice, entity, i) ==
    IF i > Len(practice.iteration) THEN Ok(Character(0))
    ELSE IF practice.role_to_id_map[practice.iteration[i]] = entity
         THEN Ok(practice.iteration[i])
         ELSE GetRoleLoopOrDefault(practice, entity, i + 1)

\* SimplePractice::get_role: the for loop over the entries of
\* role_to_id_map from the i-th on, and the panic after it.
GetRoleLoop(practice, entity, i) ==
    IF i > Len(practice.iteration)
    THEN Panic([text |-> "Practice doesn't have the role for entity",
                practice |-> practice.id,
                template |-> practice.template.name, entity |-> entity])
    ELSE IF practice.role_to_id_map[practice.iteration[i]] = entity
         THEN Ok(practice.iteration[i])
         ELSE GetRoleLoop(practice, entity, i + 1)

PracticeGetRole(practice, entity) == GetRoleLoop(practice, entity, 1)

\* A plausible slip: no actions, instead of the panic, for an entity that
\* has no role.
PracticeGetActionsOrEmpty(practice, entity) ==
    LET role == PracticeGetRole(practice, entity) IN
    IF role.kind = "panic" THEN Ok(<<>>)
    ELSE Ok(TemplateGetActions(practice.template, role.value))

\* SimplePractice::get_actions: get_role, whose panic unwinds through this
\* call, then the template's get_actions.
PracticeGetActions(practice, entity) ==
    LET role == PracticeGetRole(practice, entity) IN
    IF role.kind = "panic" THEN role
    ELSE Ok(TemplateGetActions(practice.template, role.value))

\* Longest list of actions of a role.
MaxActions == 2

\* The roles that are keys of the maps, and a role that never is one.
KeyRoles == {Character(0), Character(1)}

Roles == KeyRoles \cup {Character(99)}

\* The entities that are bound to roles, and one that never is.
BoundEntities == {10, 11}

Entities == BoundEntities \cup {99}

RoleNameStrings == {"Speaker", "Listener"}

ActionLists ==
    SeqUpTo({MockAction("action0"), MockAction("action1")}, MaxActions)

\* All maps from some of the keys K to values in V.
PartialMaps(K, V) == UNION {[D -> V] : D \in SUBSET K}

\* All orders of the elements of the set D.
Orders(D) ==
    {s \in [1..Cardinality(D) -> D] :
        \A i, j \in 1..Cardinality(D) : s[i] = s[j] => i = j}

Templates ==
    {SimplePracticeTemplate(42, "template0", role_names, actions) :
        role_names \in PartialMaps(KeyRoles, RoleNameStrings),
        actions \in PartialMaps(KeyRoles, ActionLists)}

\* The bindings of some of the roles to entities, two roles bound to the
\* same entity included, each in every order of iteration.
Bindings ==
    UNION {{[role_to_id_map |-> m, iteration |-> o] : o \in Orders(DOMAIN m)} :
        m \in PartialMaps(KeyRoles, BoundEntities)}

Practices ==
    {SimplePractice(5, b.role_to_id_map, b.iteration, t) :
        b \in Bindings, t \in Templates}

\* ------------------------------------------------------------ the caller

Init ==
    /\ context = InitContext
    /\ call = NoCall
    /\ ret = NoRet
    /\ trace = <<>>

Idle == call = NoCall

\* The caller is done with the value a call returned and goes on.  After a
\* panic there is nothing to go on with.
Discard ==
    /\ call # NoCall
    /\ ret.kind = "ok"
    /\ call' = NoCall
    /\ ret' = NoRet
    /\ trace' = <<>>
    /\ UNCHANGED context

EvaluateMock ==
    /\ Idle
    /\ \E c \in MockConditions :
        /\ call' = [op |-> "MockCondition::evaluate", self |-> c]
        /\ ret' = Ok(Evaluate(c))
    /\ trace' = <<>>
    /\ UNCHANGED context

EvaluateNot ==
    /\ Idle
    /\ \E c \in ChildConditions :
        /\ call' = [op |-> "NotCondition::evaluate", self |-> NotCondition(c)]
        /\ ret' = Ok(Evaluate(NotCondition(c)))
        /\ trace' = <<1>>
    /\ UNCHANGED context

EvaluateAnd ==
    /\ Idle
    /\ \E cs \in ConditionLists :
        LET r == AndLoop(cs, 1, <<>>) IN
        /\ call' = [op |-> "AndCondition::evaluate", self |-> AndCondition(cs)]
        /\ ret' = Ok(r.value)
        /\ trace' = r.visited
    /\ UNCHANGED context

EvaluateOr ==
    /\ Idle
    /\ \E cs \in ConditionLists :
        LET r == OrLoop(cs, 1, <<>>) IN
        /\ call' = [op |-> "OrCondition::evaluate", self |-> OrCondition(cs)]
        /\ ret' = Ok(r.value)
        /\ trace' = r.visited
    /\ UNCHANGED context

NextCondition ==
    \/ EvaluateMock
    \/ EvaluateNot
    \/ EvaluateAnd
    \/ EvaluateOr
    \/ Discard

SpecCondition == Init /\ [][NextCondition]_vars

CalculateFixed ==
    /\ Idle
    /\ \E rule \in FixedUtilities, overflow_checks \in BOOLEAN :
        /\ call' = [op |-> "FixedUtility::calculate_utility", self |-> rule,
                    overflow_checks |-> overflow_checks]
        /\ ret' = CalculateUtility(rule, overflow_checks)
    /\ trace' = <<>>
    /\ UNCHANGED context

CalculateConditional ==
    /\ Idle
    /\ \E rule \in ConditionalRules, overflow_checks \in BOOLEAN :
        /\ call' = [op |-> "ConditionalUtility::calculate_utility",
                    self |-> rule, overflow_checks |-> overflow_checks]
        /\ ret' = CalculateUtility(rule, overflow_checks)
    /\ trace' = <<1>>
    /\ UNCHANGED context

\* The build is part of the call: whether the crate was compiled with
\* overflow checks is not something its source decides.
CalculateTotal ==
    /\ Idle
    /\ \E rs \in RuleLists, overflow_checks \in BOOLEAN :
        /\ call' = [op |-> "TotalUtility::calculate_utility",
                    self |-> TotalUtility(rs),
                    overflow_checks |-> overflow_checks]
        /\ ret' = CalculateUtility(TotalUtility(rs), overflow_checks)
    /\ trace' = <<>>
    /\ UNCHANGED context

CalculateMax ==
    /\ Idle
    /\ \E rs \in RuleLists, overflow_checks \in BOOLEAN :
        /\ call' = [op |-> "MaxUtility::calculate_utility",
                    self |-> MaxUtility(rs),
                    overflow_checks |-> overflow_checks]
        /\ ret' = CalculateUtility(MaxUtility(rs), overflow_checks)
    /\ trace' = <<>>
    /\ UNCHANGED context

NextUtility ==
    \/ CalculateFixed
    \/ CalculateConditional
    \/ CalculateTotal
    \/ CalculateMax
    \/ Discard

SpecUtility == Init /\ [][NextUtility]_vars

ApplyDoNothing ==
    /\ Idle
    /\ call' = [op |-> "DoNothing::apply", self |-> DoNothing,
                context |-> context]
    /\ context' = Apply(DoNothing, context)
    /\ ret' = Ok(Unit)
    /\ trace' = <<>>

ApplyMock ==
    /\ Idle
    /\ \E e \in MockEffects :
        /\ Apply(e, context) <= MaxContext
        /\ call' = [op |-> "MockEffect::apply", self |-> e,
                    context |-> context]
        /\ context' = Apply(e, context)
    /\ ret' = Ok(Unit)
    /\ trace' = <<>>

ApplyVector ==
    /\ Idle
    /\ \E es \in EffectLists :
        LET r == VectorLoop(es, 1, context, <<>>) IN
        /\ r.context <= MaxContext
        /\ call' = [op |-> "EffectVector::apply", self |-> EffectVector(es),
                    context |-> context]
        /\ context' = r.context
        /\ trace' = r.steps
    /\ ret' = Ok(Unit)

NextEffect ==
    \/ ApplyDoNothing
    \/ ApplyMock
    \/ ApplyVector
    \/ Discard

SpecEffect == Init /\ [][NextEffect]_vars

GetActionsOfTemplate ==
    /\ Idle
    /\ \E template \in Templates, role \in Roles :
        /\ call' = [op |-> "SimplePracticeTemplate::get_actions",
                    self |-> template, role |-> role]
        /\ ret' = Ok(TemplateGetActions(template, role))
    /\ trace' = <<>>
    /\ UNCHANGED context

GetRoleName ==
    /\ Idle
    /\ \E template \in Templates, role \in Roles :
        /\ call' = [op |-> "SimplePracticeTemplate::get_role_name",
                    self |-> template, role |-> role]
        /\ ret' = TemplateGetRoleName(template, role)
    /\ trace' = <<>>
    /\ UNCHANGED context

GetRole ==
    /\ Idle
    /\ \E practice \in Practices, entity \in Entities :
        /\ call' = [op |-> "SimplePractice::get_role", self |-> practice,
                    entity |-> entity]
        /\ ret' = PracticeGetRole(practice, entity)
    /\ trace' = <<>>
    /\ UNCHANGED context

GetActionsOfPractice ==
    /\ Idle
    /\ \E practice \in Practices, entity \in Entities :
        /\ call' = [op |-> "SimplePractice::get_actions", self |-> practice,
                    entity |-> entity]
        /\ ret' = PracticeGetActions(practice, entity)
    /\ trace' = <<>>
    /\ UNCHANGED context

\* SimplePractice::new takes any map: nothing is checked.
NewPractice ==
    /\ Idle
    /\ \E b \in Bindings, template \in Templates :
        /\ call' = [op |-> "SimplePractice::new", id |-> 5,
                    role_to_id_map |-> b.role_to_id_map,
                    template |-> template]
        /\ ret' = Ok(SimplePractice(5, b.role_to_id_map, b.iteration,
                                    template))
    /\ trace' = <<>>
    /\ UNCHANGED context

GetRoles ==
    /\ Idle
    /\ \E template \in Templates :
        \E iteration \in Orders(DOMAIN template.role_names) :
            /\ call' = [op |-> "SimplePracticeTemplate::get_roles",
                        self |-> template, iteration |-> iteration]
            /\ ret' = Ok(TemplateGetRoles(template, iteration))
    /\ trace' = <<>>
    /\ UNCHANGED context

NextPractice ==
    \/ NewPractice
    \/ GetRoles
    \/ GetActionsOfTemplate
    \/ GetRoleName
    \/ GetRole
    \/ GetActionsOfPractice
    \/ Discard

SpecPractice == Init /\ [][NextPractice]_vars

GetNameOfAction ==
    /\ Idle
    /\ \E action \in Actions :
        /\ call' = [op |-> "Action::get_name", self |-> action,
                    context |-> context]
        /\ ret' = Ok(ActionGetName(action))
    /\ trace' = <<>>
    /\ UNCHANGED context

IsAvailable ==
    /\ Idle
    /\ \E action \in Actions :
        /\ call' = [op |-> "Action::is_available", self |-> action,
                    context |-> context]
        /\ ret' = Ok(ActionIsAvailable(action))
    /\ trace' = <<>>
    /\ UNCHANGED context

\* A plausible slip: get_utility also applies the effect of the action.
GetUtilityAppliesEffect ==
    /\ Idle
    /\ \E action \in Actions, overflow_checks \in BOOLEAN :
        /\ ActionExecute(action, context) <= MaxContext
        /\ call' = [op |-> "Action::get_utility", self |-> action,
                    overflow_checks |-> overflow_checks, context |-> context]
        /\ ret' = ActionGetUtility(action, overflow_checks)
        /\ context' = ActionExecute(action, context)
    /\ trace' = <<>>

GetUtilityOfAction ==
    /\ Idle
    /\ \E action \in Actions, overflow_checks \in BOOLEAN :
        /\ call' = [op |-> "Action::get_utility", self |-> action,
                    overflow_checks |-> overflow_checks, context |-> context]
        /\ ret' = ActionGetUtility(action, overflow_checks)
    /\ trace' = <<>>
    /\ UNCHANGED context

Execute ==
    /\ Idle
    /\ \E action \in Actions :
        /\ ActionExecute(action, context) <= MaxContext
        /\ call' = [op |-> "Action::execute", self |-> action,
                    context |-> context]
        /\ context' = ActionExecute(action, context)
    /\ ret' = Ok(Unit)
    /\ trace' = <<>>

NextAction ==
    \/ GetNameOfAction
    \/ IsAvailable
    \/ GetUtilityOfAction
    \/ Execute
    \/ Discard

SpecAction == Init /\ [][NextAction]_vars

\* ------------------------------------------------ the library as a whole

\* The operations that take the context by shared reference, or no context
\* at all, and return a value: the queries.
ConditionQueries ==
    {"MockCondition::evaluate", "NotCondition::evaluate",
     "AndCondition::evaluate", "OrCondition::evaluate"}

UtilityQueries ==
    {"FixedUtility::calculate_utility",
     "ConditionalUtility::calculate_utility",
     "TotalUtility::calculate_utility", "MaxUtility::calculate_utility"}

QueryOps ==
    ConditionQueries \cup UtilityQueries
        \cup {"Action::get_name", "Action::is_available",
              "Action::get_utility",
              "SimplePracticeTemplate::get_actions",
              "SimplePracticeTemplate::get_role_name",
              "SimplePracticeTemplate::get_roles",
              "SimplePractice::get_role", "SimplePractice::get_actions"}

\* The operations that take the context by mutable reference.
MutatingOps ==
    {"Action::execute", "DoNothing::apply", "MockEffect::apply",
     "EffectVector::apply"}

\* What the query of call c returns when it is made on the same object with
\* the same arguments.
QueryResult(c) ==
    CASE c.op \in ConditionQueries -> Ok(Evaluate(c.self))
      [] c.op \in UtilityQueries ->
            CalculateUtility(c.self, c.overflow_checks)
      [] c.op = "Action::get_name" -> Ok(ActionGetName(c.self))
      [] c.op = "Action::is_available" -> Ok(ActionIsAvailable(c.self))
      [] c.op = "Action::get_utility" ->
            ActionGetUtility(c.self, c.overflow_checks)
      [] c.op = "SimplePracticeTemplate::get_actions" ->
            Ok(TemplateGetActions(c.self, c.role))
      [] c.op = "SimplePracticeTemplate::get_role_name" ->
            TemplateGetRoleName(c.self, c.role)
      [] c.op = "SimplePracticeTemplate::get_roles" ->
            Ok(TemplateGetRoles(c.self, c.iteration))
      [] c.op = "SimplePractice::get_role" ->
            PracticeGetRole(c.self, c.entity)
      [] c.op = "SimplePractice::get_actions" ->
            PracticeGetActions(c.self, c.entity)

\* The caller makes the query it just made once more, on the same object,
\* before it goes on.
RepeatQuery ==
    /\ call.op \in QueryOps
    /\ ret.kind = "ok"
    /\ "repeated" \notin DOMAIN call
    /\ call' = [repeated |-> TRUE] @@ call
    /\ ret' = QueryResult(call)
    /\ UNCHANGED <<context, trace>>

NextLibrary ==
    \/ NextCondition
    \/ NextUtility
    \/ NextPractice
    \/ NextAction
    \/ ApplyDoNothing
    \/ RepeatQuery

SpecLibrary == Init /\ [][NextLibrary]_vars

\* The first child, in list order, that evaluates to v; 0 if there is none.
FirstChild(cs, v) ==
    LET hits == {i \in 1..Len(cs) : Evaluate(cs[i]) = v} IN
    IF hits = {} THEN 0 ELSE CHOOSE i \in hits : \A j \in hits : i <= j

\* C9: AndCondition.evaluate is the logical AND of its children's results
\* (true for the empty list) and evaluates the children in list order up to
\* and including the first false one, and none after it.
C9_AndIsConjunctionWithShortCircuit ==
    call.op = "AndCondition::evaluate" =>
        LET cs == call.self.conditions
            stop == FirstChild(cs, FALSE)
        IN /\ ret = Ok(\A i \in 1..Len(cs) : Evaluate(cs[i]))
           /\ Len(cs) = 0 => ret = Ok(TRUE)
           /\ trace = [i \in 1..(IF stop = 0 THEN Len(cs) ELSE stop) |-> i]

\* An And over three children whose first child is false: the two later
\* children, one of them true and one false, were not evaluated.
C9_Witness ==
    /\ call.op = "AndCondition::evaluate"
    /\ Len(call.self.conditions) = 3
    /\ ~Evaluate(call.self.conditions[1])
    /\ Evaluate(call.self.conditions[2])
    /\ ~Evaluate(call.self.conditions[3])
    /\ ret = Ok(FALSE)
    /\ trace = <<1>>

\* C10: OrCondition.evaluate is the logical OR of its children's results
\* (false for the empty list) and evaluates the children in list order up to
\* and including the first true one, and none after it.
C10_OrIsDisjunctionWithShortCircuit ==
    call.op = "OrCondition::evaluate" =>
        LET cs == call.self.conditions
            stop == FirstChild(cs, TRUE)
        IN /\ ret = Ok(\E i \in 1..Len(cs) : Evaluate(cs[i]))
           /\ Len(cs) = 0 => ret = Ok(FALSE)
           /\ trace = [i \in 1..(IF stop = 0 THEN Len(cs) ELSE stop) |-> i]

\* An Or over three children whose second child is the first true one: the
\* third child was not evaluated.
C10_Witness ==
    /\ call.op = "OrCondition::evaluate"
    /\ Len(call.self.conditions) = 3
    /\ ~Evaluate(call.self.conditions[1])
    /\ Evaluate(call.self.conditions[2])
    /\ ~Evaluate(call.self.conditions[3])
    /\ ret = Ok(TRUE)
    /\ trace = <<1, 2>>

\* ------------------------------------------------ the sums of mathematics

\* An integer of any size as hi * 2^16 + lo with 0 <= lo < 2^16, so that the
\* sum of a few i32 can be written down without leaving the integers of the
\* checker.
Half == 2^16

RECURSIVE SumSeq(_)
SumSeq(s) == IF s = <<>> THEN 0 ELSE s[1] + SumSeq(Tail(s))

MathSum(values) ==
    LET h == SumSeq([i \in 1..Len(values) |-> values[i] \div Half])
        l == SumSeq([i \in 1..Len(values) |-> values[i] % Half])
    IN [hi |-> h + (l \div Half), lo |-> l % Half]

InI32(m) == m.hi >= -(Half \div 2) /\ m.hi < Half \div 2

AsI32(m) == m.hi * Half + m.lo

\* What the children of the rule of the call returned, and their values.
ChildOutcomes ==
    [i \in 1..Len(call.self.rules) |->
        CalculateUtility(call.self.rules[i], call.overflow_checks)]

AllChildrenReturn ==
    \A i \in 1..Len(call.self.rules) : ChildOutcomes[i].kind = "ok"

ChildValues == [i \in 1..Len(call.self.rules) |-> ChildOutcomes[i].value]

\* C5 as claimed: TotalUtility.calculate_utility never wraps around: a sum
\* outside the range of i32 is reported as a fault, and a value that is
\* returned is the sum of mathematics.
C5_TotalNeverWraps ==
    (call.op = "TotalUtility::calculate_utility" /\ AllChildrenReturn) =>
        LET m == MathSum(ChildValues) IN
        /\ ~InI32(m) => ret.kind = "panic"
        /\ ret.kind = "ok" => InI32(m) /\ ret.value = AsI32(m)

\* C6: MaxUtility.calculate_utility returns the maximum of its children's
\* utilities for a non-empty list (a negative one when all are negative),
\* and 0 for the empty list.
C6_MaxIsMaximum ==
    (call.op = "MaxUtility::calculate_utility" /\ AllChildrenReturn) =>
        LET n == Len(call.self.rules) IN
        /\ ret.kind = "ok"
        /\ n = 0 => ret.value = 0
        /\ n > 0 => /\ \E i \in 1..n : ChildValues[i] = ret.value
                    /\ \A i \in 1..n : ChildValues[i] <= ret.value

\* A Max over three children, all negative, returned the negative maximum.
C6_Witness ==
    /\ call.op = "MaxUtility::calculate_utility"
    /\ Len(call.self.rules) = 3
    /\ \A i \in 1..3 : ChildOutcomes[i].kind = "ok" /\ ChildValues[i] < 0
    /\ ChildValues[1] # ChildValues[2]
    /\ ret = Ok(-1)

\* C7 as claimed: TotalUtility.calculate_utility returns the sum of its
\* children's utilities whenever that sum is in the range of i32.
C7_TotalIsSumWhenSumInRange ==
    (call.op = "TotalUtility::calculate_utility" /\ AllChildrenReturn
        /\ InI32(MathSum(ChildValues))) =>
        ret = Ok(AsI32(MathSum(ChildValues)))

\* C7 as amended: TotalUtility.calculate_utility returns the sum of its
\* children's utilities, each counted once and the negative ones included,
\* whenever every running sum of the list, taken from the left, is in the
\* range of i32; and 0 for the empty list.
C7_TotalIsSumWhenRunningSumsInRange ==
    (call.op = "TotalUtility::calculate_utility" /\ AllChildrenReturn
        /\ \A k \in 1..Len(call.self.rules) :
              InI32(MathSum(SubSeq(ChildValues, 1, k)))) =>
        /\ ret = Ok(AsI32(MathSum(ChildValues)))
        /\ Len(call.self.rules) = 0 => ret = Ok(0)

\* A Total over three children, a negative one among them and a conditional
\* one that counts 0, returned their sum.
C7_Witness ==
    /\ call.op = "TotalUtility::calculate_utility"
    /\ call.self.rules = <<FixedUtility(9), FixedUtility(-5),
                           ConditionalUtility(MockCondition(FALSE), 35)>>
    /\ ret = Ok(4)

\* ------------------------------------------------- practices: the claims

\* The entity of the call is bound to no role of the practice of the call.
EntityUnbound ==
    \A role \in DOMAIN call.self.role_to_id_map :
        call.self.role_to_id_map[role] # call.entity

\* C1 as claimed: Practice.get_role, for an entity no role is bound to,
\* hands the caller an entity-not-found error it can recover from: the call
\* neither panics nor returns a Role, and the caller can go on.
C1_GetRoleSignalsRecoverableNotFound ==
    (call.op = "SimplePractice::get_role" /\ EntityUnbound) =>
        /\ ret.kind # "panic"
        /\ ret.kind # "ok"

\* C1 as amended: Practice.get_role, for an entity no role is bound to,
\* panics with a message that names the practice, its template and the
\* entity, and returns no Role, neither a default nor a sentinel one.
C1_GetRolePanicsOnUnboundEntity ==
    (call.op = "SimplePractice::get_role" /\ EntityUnbound) =>
        /\ ret.kind = "panic"
        /\ ret.message.entity = call.entity
        /\ ret.message.practice = call.self.id
        /\ ret.message.template = call.self.template.name
        /\ ~ENABLED Discard

\* get_role for entity 99 on a practice that binds both roles to others.
C1_Witness ==
    /\ call.op = "SimplePractice::get_role"
    /\ call.entity = 99
    /\ DOMAIN call.self.role_to_id_map = KeyRoles
    /\ call.self.role_to_id_map[Character(0)] = 10
    /\ call.self.role_to_id_map[Character(1)] = 11
    /\ ret.kind = "panic"

\* C2 as claimed: PracticeTemplate.get_role_name hands the caller a
\* NotFound error it can recover from for a role without a name (the call
\* neither panics nor returns a string), and the registered name for a role
\* with one.
C2_GetRoleNameSignalsRecoverableNotFound ==
    call.op = "SimplePracticeTemplate::get_role_name" =>
        IF call.role \in DOMAIN call.self.role_names
        THEN ret = Ok(call.self.role_names[call.role])
        ELSE ret.kind # "panic" /\ ret.kind # "ok"

\* C2 as amended: PracticeTemplate.get_role_name panics, with a message
\* that names the template and the role, for a role without a name, and
\* produces no string, neither an empty nor a placeholder one; for a role
\* with a name it returns exactly the registered name.
C2_GetRoleNamePanicsOnUnnamedRole ==
    call.op = "SimplePracticeTemplate::get_role_name" =>
        IF call.role \in DOMAIN call.self.role_names
        THEN ret = Ok(call.self.role_names[call.role])
        ELSE /\ ret.kind = "panic"
             /\ ret.message.role = call.role
             /\ ret.message.template = call.self.name
             /\ ~ENABLED Discard

\* get_role_name for a role that has actions and no name.
C2_Witness ==
    /\ call.op = "SimplePracticeTemplate::get_role_name"
    /\ call.role = Character(1)
    /\ DOMAIN call.self.role_names = {Character(0)}
    /\ Character(1) \in DOMAIN call.self.actions
    /\ ret.kind = "panic"

\* C3: PracticeTemplate.get_actions returns the actions of a role that is a
\* key of the actions map as they were configured, as many and the same one
\* at every index, and the empty list, never an error, for a role that is
\* no key of it, whether it has a name or not.
C3_TemplateGetActionsKeepsOrder ==
    call.op = "SimplePracticeTemplate::get_actions" =>
        /\ ret.kind = "ok"
        /\ IF call.role \in DOMAIN call.self.actions
           THEN LET configured == call.self.actions[call.role] IN
                /\ Len(ret.value) = Len(configured)
                /\ \A i \in 1..Len(configured) : ret.value[i] = configured[i]
           ELSE ret.value = <<>>

\* The template of the tests: the speaker has action0 and action1, the
\* listener a name and no actions; the speaker's actions were asked for.
C3_Witness ==
    /\ call.op = "SimplePracticeTemplate::get_actions"
    /\ call.role = Character(0)
    /\ DOMAIN call.self.role_names = KeyRoles
    /\ DOMAIN call.self.actions = {Character(0)}
    /\ ret = Ok(<<MockAction("action0"), MockAction("action1")>>)

\* C4: Practice.get_actions returns, for an entity bound to a role, what
\* the template's get_actions returns for the role get_role finds (the
\* empty list when that role has no actions); for an entity bound to no
\* role it fails as get_role fails, and returns no empty list.
C4_PracticeGetActionsDelegates ==
    call.op = "SimplePractice::get_actions" =>
        LET role == PracticeGetRole(call.self, call.entity)
            actions == call.self.template.actions
        IN IF EntityUnbound
           THEN ret.kind = "panic" /\ ret = role
           ELSE /\ role.kind = "ok"
                /\ call.self.role_to_id_map[role.value] = call.entity
                /\ ret.kind = "ok"
                /\ ret.value = IF role.value \in DOMAIN actions
                               THEN actions[role.value] ELSE <<>>

\* get_actions for an entity that no role of the practice is bound to, on a
\* practice that binds both roles and whose template has actions for both.
C4_Witness ==
    /\ call.op = "SimplePractice::get_actions"
    /\ call.entity = 99
    /\ DOMAIN call.self.role_to_id_map = KeyRoles
    /\ DOMAIN call.self.template.actions = KeyRoles
    /\ ret.kind = "panic"
    /\ ret.message.entity = 99

\* --------------------------------------------------- effects: the claim

RECURSIVE Added(_)
\* What an effect of the library adds to the context.
Added(effect) ==
    CASE effect.type = "DoNothing" -> 0
      [] effect.type = "MockEffect" -> effect.value
      [] effect.type = "EffectVector" ->
            SumSeq([i \in 1..Len(effect.effects) |-> Added(effect.effects[i])])

\* C8: EffectVector.apply applies every sub-effect once, in list order, each
\* on the context the one before it left: the context it leaves is the left
\* fold of the sub-effects over the context it found, which for the
\* additive effects of the library is that context plus all they add; the
\* empty vector leaves the context as it is.
C8_VectorAppliesInOrder ==
    call.op = "EffectVector::apply" =>
        LET es == call.self.effects
            n == Len(es)
        IN /\ Len(trace) = n
           /\ \A i \in 1..n :
                /\ trace[i].index = i
                /\ trace[i].before =
                      IF i = 1 THEN call.context ELSE trace[i - 1].after
                /\ trace[i].after = trace[i].before + Added(es[i])
           /\ context = IF n = 0 THEN call.context ELSE trace[n].after
           /\ context = call.context + Added(call.self)

\* The doc test: the mocks +2 and +34, in this order, on 42 gave 78.
C8_Witness ==
    /\ call.op = "EffectVector::apply"
    /\ call.self.effects = <<MockEffect(2), MockEffect(34)>>
    /\ call.context = 42
    /\ context = 78
    /\ trace = <<[index |-> 1, before |-> 42, after |-> 44],
                 [index |-> 2, before |-> 44, after |-> 78]>>

\* ------------------------------------------ conditional utility: the claim

\* C11: ConditionalUtility.calculate_utility returns the configured value
\* when its condition evaluates to true and exactly 0 when it evaluates to
\* false, for every configured value, the negative ones included, and every
\* context.
C11_ConditionalIsValueOrZero ==
    call.op = "ConditionalUtility::calculate_utility" =>
        /\ ret.kind = "ok"
        /\ Evaluate(call.self.condition) => ret.value = call.self.utility
        /\ ~Evaluate(call.self.condition) => ret.value = 0

\* A conditional rule with a negative value whose condition, a negated
\* mock, is false: it returned 0.
C11_Witness ==
    /\ call.op = "ConditionalUtility::calculate_utility"
    /\ call.self.condition = NotCondition(MockCondition(TRUE))
    /\ call.self.utility = -5
    /\ ret = Ok(0)

\* --------------------------------------------------- actions: the claims

\* C12: Action.execute applies the effect of the action whether or not the
\* action is available: the context it leaves is the one the effect alone
\* leaves, also when is_available is false on the context it found, and
\* the call returns normally.
C12_ExecuteAppliesEffectUnconditionally ==
    (call.op = "Action::execute" /\ call.self.type = "SimpleAction") =>
        /\ ret = Ok(Unit)
        /\ context = call.context + Added(call.self.effect)

\* An action whose condition is false and whose effect adds 34 was executed
\* on 42 and left 76.
C12_Witness ==
    /\ call.op = "Action::execute"
    /\ call.self.type = "SimpleAction"
    /\ ~ActionIsAvailable(call.self)
    /\ call.self.effect = MockEffect(34)
    /\ call.context = 42
    /\ context = 76
    /\ ret = Ok(Unit)

\* ------------------------------------------ roles of a template: the claim

\* C14: PracticeTemplate.get_roles returns the roles that are keys of the
\* role-names map, all of them and each once: a role with a name and no
\* actions is among them, a role with actions and no name is not.
C14_GetRolesIsKeysOfRoleNames ==
    call.op = "SimplePracticeTemplate::get_roles" =>
        /\ ret.kind = "ok"
        /\ {ret.value[i] : i \in 1..Len(ret.value)}
              = DOMAIN call.self.role_names
        /\ Len(ret.value) = Cardinality(DOMAIN call.self.role_names)

\* A template in which one role has a name and no actions and the other
\* actions and no name: get_roles returned the first one only.
C14_Witness ==
    /\ call.op = "SimplePracticeTemplate::get_roles"
    /\ DOMAIN call.self.role_names = {Character(1)}
    /\ DOMAIN call.self.actions = {Character(0)}
    /\ Len(call.self.actions[Character(0)]) = 2
    /\ ret = Ok(<<Character(1)>>)

\* ------------------------------------------ overlapping bindings: the claim

\* The roles of the practice of the call that are bound to its entity.
RolesOfEntity ==
    {role \in DOMAIN call.self.role_to_id_map :
        call.self.role_to_id_map[role] = call.entity}

\* C15: the construction of a practice rejects no binding map, one that
\* binds two roles to the same entity included; get_role returns a role
\* bound to the entity whenever there is one, the first one in the order
\* the map iterates in; and every role bound to the entity is the one
\* returned under some order of iteration, so that with two roles bound to
\* the entity the binding map alone does not fix the role returned.
C15_GetRoleReturnsFirstMatchOfIteration ==
    /\ call.op = "SimplePractice::new" =>
          /\ ret.kind = "ok"
          /\ ret.value.role_to_id_map = call.role_to_id_map
    /\ (call.op = "SimplePractice::get_role" /\ RolesOfEntity # {}) =>
          /\ ret.kind = "ok"
          /\ ret.value \in RolesOfEntity
          /\ \E i \in 1..Len(call.self.iteration) :
                /\ call.self.iteration[i] = ret.value
                /\ \A j \in 1..(i - 1) :
                      call.self.iteration[j] \notin RolesOfEntity
          /\ \A role \in RolesOfEntity :
                \E o \in Orders(DOMAIN call.self.role_to_id_map) :
                    PracticeGetRole([call.self EXCEPT !.iteration = o],
                                    call.entity) = Ok(role)

\* Both roles are bound to entity 10; get_role(10) returned the listener,
\* the role the map of this practice iterates over first.
C15_Witness ==
    /\ call.op = "SimplePractice::get_role"
    /\ call.entity = 10
    /\ RolesOfEntity = KeyRoles
    /\ call.self.iteration = <<Character(1), Character(0)>>
    /\ ret = Ok(Character(1))

\* --------------------------------------------------- queries: the claim

====
